---- MODULE Spec2Model ----
(***************************************************************************)
(* One WebSocket connection of the chat relay (Examples/Day01): the        *)
(* receive loop of ws_chat_non_stream (/ws/chat) and ws_chat_stream        *)
(* (/ws/chat2) of app3.py, and of the app2.py variant of the same two      *)
(* endpoints.  Every await of the handler is a step; the client, the       *)
(* transport and the language model are the environment and choose what    *)
(* each await returns or raises.                                           *)
(***************************************************************************)
EXTENDS Integers, Sequences, FiniteSets, TLC

VARIABLES
    variant,      \* "app3" | "app2": which file serves the connection
    endpoint,     \* "chat" (non-stream) | "chat2" (streaming)
    pc,           \* the await the handler is suspended at
    close_code,   \* app3: the local close_code
    lock,         \* asyncio.Lock of the connection: TRUE while held
    request_id,   \* request_id of the request being handled (0: none)
    req,          \* the validated ChatRequest being handled
    errors,       \* ve.errors() of the frame being rejected
    full_text,    \* the stream accumulator
    token,        \* the normalized token about to be sent as a chunk
    reply_text,   \* the normalized reply about to be sent
    sends,        \* history: every send_json attempt made for the current
                  \* frame, and how it ended
    prior_ids,    \* history: the request_ids of the events emitted for
                  \* earlier frames
    prev_cause,   \* history: what ended the handling of the previous frame
    closes,       \* history: every websocket.close attempt
    llm_calls,    \* history: every message handed to llm.ainvoke / llm.astream
    clientGone,   \* the client has disconnected or the transport is broken
    nframes,      \* frames received so far on this connection
    ntokens,      \* chunks the model has produced so far on this connection
    cause,        \* history: what ended the handling of the current frame
    acquires,     \* history: how often the connection's lock was acquired
    releases,     \* history: how often the connection's lock was released
    active,       \* model calls / token streams of this connection in flight
    produced,     \* history: the normalized tokens the model has produced
                  \* for the current request
    peer          \* another connection of the same endpoint, reduced to its
                  \* own lock and its own model call in flight

vars == <<variant, endpoint, pc, close_code, lock, request_id, req, errors,
          full_text, token, reply_text, sends, prior_ids, prev_cause, closes,
          llm_calls, clientGone, nframes, ntokens, cause, acquires, releases,
          active, produced, peer>>

(* The per-connection gate and its bookkeeping. *)
gate == <<lock, acquires, releases>>

----------------------------------------------------------------------------
(* Bounds of the model *)

MaxFrames == 2
MaxTokens == 2

(* Program constants *)

MaxLength == 8000
MinLength == 1
WS_1000_NORMAL_CLOSURE == 1000
WS_1009_MESSAGE_TOO_BIG == 1009
WS_1011_INTERNAL_ERROR == 1011
WS_1013_TRY_AGAIN_LATER == 1013

Absent == "<absent>"
NoRequest == [shape |-> "none", len |-> 0, blank |-> TRUE]

(* str(uuid.uuid4())[:8]: a random draw from a finite space. *)
RequestIds == {1, 2}

----------------------------------------------------------------------------
(* Inbound frames.  A string message is known by its length and by whether *)
(* it is whitespace only.                                                  *)

StringFrame(n, b) == [shape |-> "string", len |-> n, blank |-> b]
OtherFrame(s) == [shape |-> s, len |-> 0, blank |-> TRUE]

Frames ==
    { OtherFrame("not_json"), OtherFrame("not_object"),
      OtherFrame("missing"), OtherFrame("not_string"),
      StringFrame(0, TRUE), StringFrame(1, TRUE),
      StringFrame(MaxLength, FALSE), StringFrame(MaxLength + 1, FALSE) }

(* ChatRequest.model_validate: the list of pydantic errors, empty when the *)
(* frame validates.                                                        *)
PydanticError(t, m, l) == [type |-> t, msg |-> m, loc |-> l]

Validate(f) ==
    CASE f.shape = "not_object" ->
           << PydanticError("model_type",
                "Input should be a valid dictionary or object to extract fields from",
                <<>>) >>
      [] f.shape = "missing" ->
           << PydanticError("missing", "Field required", <<"message">>) >>
      [] f.shape = "not_string" ->
           << PydanticError("string_type", "Input should be a valid string",
                <<"message">>) >>
      [] f.shape = "string" /\ f.len < MinLength ->
           << PydanticError("string_too_short",
                "String should have at least 1 character", <<"message">>) >>
      [] f.shape = "string" /\ f.len > MaxLength ->
           << PydanticError("string_too_long",
                "String should have at most 8000 characters", <<"message">>) >>
      [] OTHER -> <<>>

(* s.lower() and `needle in s` on the strings pydantic produces. *)
Lower(s) ==
    CASE s = "Input should be a valid dictionary or object to extract fields from"
           -> "input should be a valid dictionary or object to extract fields from"
      [] s = "Field required" -> "field required"
      [] s = "Input should be a valid string" -> "input should be a valid string"
      [] s = "String should have at least 1 character"
           -> "string should have at least 1 character"
      [] s = "String should have at most 8000 characters"
           -> "string should have at most 8000 characters"
      [] OTHER -> s

Contains(needle, hay) == <<needle, hay>> \in { <<"too_long", "string_too_long">> }

InSeq(x, s) == \E i \in 1..Len(s) : s[i] = x

is_message_too_big_error(errs) ==
    \E i \in 1..Len(errs) :
        /\ \/ Contains("too_long", Lower(errs[i].type))
           \/ Contains("too long", Lower(errs[i].msg))
           \/ Contains("max_length", Lower(errs[i].msg))
        /\ InSeq("message", errs[i].loc)

----------------------------------------------------------------------------
(* What the model returns: None, a plain string, or an object with a       *)
(* `content` attribute that is a string or None.                           *)

LlmResult(k, t) == [kind |-> k, text |-> t]

Results ==
    { LlmResult("none", ""), LlmResult("str", "Hello"),
      LlmResult("content", "Hello"), LlmResult("content", ""),
      LlmResult("content_none", "") }

Chunks ==
    { LlmResult("content", "He"), LlmResult("content", "llo"),
      LlmResult("content", ""), LlmResult("content_none", ""),
      LlmResult("none", "") }

(* hasattr(result, "content") and result.content *)
HasContent(result) == result.kind \in {"content", "content_none"}
Content(result) == IF result.kind = "content_none" THEN Absent ELSE result.text

(* Faulty variant (C18): return repr(result) for a plain string. *)
to_text_repr(result) ==
    IF result.kind = "none" THEN ""
    ELSE IF HasContent(result)
         THEN (IF Content(result) \in {Absent, ""} THEN "" ELSE Content(result))
         ELSE "'" \o result.text \o "'"

to_text(result) ==
    IF result.kind = "none" THEN ""
    ELSE IF HasContent(result)
         THEN (IF Content(result) \in {Absent, ""} THEN "" ELSE Content(result))
         ELSE result.text

----------------------------------------------------------------------------
(* Outbound events (the JSON objects handed to send_json). *)

Event(t, rid, c, st, v, f, d) ==
    [type |-> t, request_id |-> rid, code |-> c, status |-> st,
     value |-> v, full |-> f, detail |-> d]

StartEvent(rid) == Event("start", rid, Absent, Absent, Absent, Absent, FALSE)
ChunkEvent(rid, v) ==
    Event("chunk", rid, Absent,
          IF variant = "app3" THEN "IN_PROGRESS" ELSE Absent, v, Absent, FALSE)
EndEvent(rid, f) ==
    Event("end", rid, Absent,
          IF variant = "app3" THEN "COMPLETED" ELSE Absent, Absent, f, FALSE)
ResponseEvent(rid, v) == Event("response", rid, Absent, Absent, v, Absent, FALSE)
(* An error event that names its kind in "code". *)
ErrorEvent(c, rid) == Event("error", rid, c, Absent, Absent, Absent, TRUE)
(* The validation errors of app3's /ws/chat2 name their kind in "status". *)
StatusErrorEvent(st) == Event("error", 0, Absent, st, Absent, Absent, TRUE)

ValidationErrorEvent(kind) ==
    IF variant = "app3" /\ endpoint = "chat2"
    THEN StatusErrorEvent(kind) ELSE ErrorEvent(kind, 0)

(* What a send_json can do: complete, raise WebSocketDisconnect, or raise  *)
(* another exception.  Once the client is gone no send completes.          *)
SendOutcomes ==
    IF clientGone THEN {"disconnect", "fail"} ELSE {"ok", "disconnect", "fail"}

Send(ev, o) ==
    /\ sends' = Append(sends, [ev |-> ev, result |-> o])
    /\ clientGone' = (clientGone \/ o # "ok")

(* The events the client received for the current frame, in order. *)
Delivered(a) == a.result = "ok"
Emitted == SelectSeq(sends, Delivered)
EmittedIds == { Emitted[i].ev.request_id : i \in 1..Len(Emitted) } \ {0}

----------------------------------------------------------------------------
(* The connection supervisor: the outer try of the endpoint function.      *)

(* Faulty variant (C3): the return of `except WebSocketDisconnect` skips   *)
(* the finally clause.                                                     *)
DisconnectExitSkipsFinally == "done"

(* except WebSocketDisconnect: return -- the finally clause still runs. *)
DisconnectExit == "finally"

(* `async with lock:` is entered: lock.acquire(). *)
EnterGate ==
    /\ lock = FALSE
    /\ lock' = TRUE
    /\ acquires' = acquires + 1
    /\ releases' = releases

(* Faulty variant (C12): the lock is acquired by hand and never released. *)
ExitGateKeepsHeld == UNCHANGED gate

(* Control leaves the `async with lock:` block if it is inside it, by any  *)
(* path: __aexit__ releases the lock.                                      *)
ExitGate ==
    /\ lock' = FALSE
    /\ releases' = releases + (IF lock THEN 1 ELSE 0)
    /\ acquires' = acquires

(* Faulty variant (C21): the outer `except Exception` leaves close_code   *)
(* as it is.                                                               *)
PropagateKeepsCode(exc) ==
    /\ pc' = IF exc = "disconnect" THEN DisconnectExit ELSE "finally"
    /\ close_code' = close_code
    /\ ExitGate

(* An exception `exc` ("disconnect" | "fail") leaves the while loop (and    *)
(* the `async with lock` block, if inside it).                             *)
Propagate(exc) ==
    /\ pc' = IF exc = "disconnect" THEN DisconnectExit ELSE "finally"
    /\ close_code' = IF variant = "app3" /\ exc = "fail"
                     THEN WS_1011_INTERNAL_ERROR ELSE close_code
    /\ ExitGate

(* Faulty variant (C20): app2 leaves the loop as app3 does. *)
BreakAlways(code) ==
    /\ pc' = "finally"
    /\ close_code' = code
    /\ ExitGate

(* `break` with a close decision (app3); app2 has no break: the loop goes on. *)
Break(code) ==
    /\ pc' = IF variant = "app3" THEN "finally" ELSE "recv"
    /\ close_code' = IF variant = "app3" THEN code ELSE close_code
    /\ ExitGate

(* `continue`, or the end of the loop body: back to receive_json. *)
Continue ==
    /\ pc' = "recv"
    /\ close_code' = close_code
    /\ ExitGate

Init ==
    /\ variant \in {"app3", "app2"}
    /\ endpoint \in {"chat", "chat2"}
    /\ pc = "recv"
    /\ close_code = WS_1000_NORMAL_CLOSURE
    /\ lock = FALSE
    /\ request_id = 0
    /\ req = NoRequest
    /\ errors = <<>>
    /\ full_text = ""
    /\ token = ""
    /\ reply_text = ""
    /\ sends = <<>>
    /\ prior_ids = {}
    /\ prev_cause = "none"
    /\ closes = <<>>
    /\ llm_calls = <<>>
    /\ clientGone = FALSE
    /\ nframes = 0
    /\ ntokens = 0
    /\ cause = "none"
    /\ acquires = 0
    /\ releases = 0
    /\ active = 0
    /\ produced = <<>>
    /\ peer = [lock |-> FALSE, active |-> 0]

----------------------------------------------------------------------------
(* Receive + validate *)

(* receive_json raises WebSocketDisconnect. *)
ReceiveDisconnect ==
    /\ pc = "recv"
    /\ clientGone' = TRUE
    /\ cause' = "disconnect"
    /\ Propagate("disconnect")
    /\ UNCHANGED <<variant, endpoint, prior_ids, prev_cause, request_id, req,
                   errors, full_text, token, reply_text, sends, closes,
                   llm_calls, nframes, ntokens, active, produced, peer>>

(* A frame that validates: enter `async with lock`, draw the request_id;   *)
(* /ws/chat calls llm.ainvoke(req.message) at once.                        *)
Accept(f) ==
    /\ EnterGate
    /\ req' = f
    /\ errors' = <<>>
    /\ \E r \in RequestIds : request_id' = r
    /\ close_code' = close_code
    /\ IF endpoint = "chat"
       THEN /\ pc' = "invoke"
            /\ llm_calls' = Append(llm_calls, f)
            /\ active' = active + 1
       ELSE /\ pc' = "send_start"
            /\ UNCHANGED <<llm_calls, active>>
    /\ cause' = "none"
    /\ UNCHANGED clientGone

(* A frame pydantic rejects. *)
Reject(f, errs) ==
    /\ errors' = errs
    /\ req' = NoRequest
    /\ request_id' = 0
    /\ IF variant = "app3" /\ is_message_too_big_error(errs)
       THEN pc' = "send_too_big" /\ cause' = "too_big"
       ELSE pc' = "send_invalid" /\ cause' = "invalid"
    /\ UNCHANGED <<close_code, gate, llm_calls, clientGone, active>>

(* A frame receive_json cannot decode: app2's receive_chat_request reports *)
(* BAD_REQUEST; app3's loop does not catch it.                             *)
Undecodable ==
    /\ errors' = <<>>
    /\ req' = NoRequest
    /\ request_id' = 0
    /\ cause' = "bad_frame"
    /\ IF variant = "app3"
       THEN Propagate("fail")
       ELSE pc' = "send_bad_request" /\ UNCHANGED <<close_code, gate>>
    /\ UNCHANGED <<llm_calls, clientGone, active>>

ReceiveFrame ==
    /\ pc = "recv"
    /\ nframes < MaxFrames
    /\ ~clientGone
    /\ nframes' = nframes + 1
    /\ sends' = <<>>
    /\ produced' = <<>>
    /\ prior_ids' = prior_ids \cup EmittedIds
    /\ prev_cause' = cause
    /\ \E f \in Frames :
         IF f.shape = "not_json" THEN Undecodable
         ELSE IF Validate(f) = <<>> THEN Accept(f)
         ELSE Reject(f, Validate(f))
    /\ UNCHANGED <<variant, endpoint, full_text, token, reply_text, closes,
                   ntokens, peer>>

(* MESSAGE_TOO_BIG (app3 only), then close_code = 1009 and break. *)
SendTooBig ==
    /\ pc = "send_too_big"
    /\ \E o \in SendOutcomes :
         /\ Send(ValidationErrorEvent("MESSAGE_TOO_BIG"), o)
         /\ IF o = "ok" THEN Break(WS_1009_MESSAGE_TOO_BIG) ELSE Propagate(o)
    /\ UNCHANGED <<variant, endpoint, prior_ids, prev_cause, request_id, req,
                   errors, full_text, token, reply_text, closes, llm_calls,
                   nframes, ntokens, cause, active, produced, peer>>

(* Faulty variant (C9): INVALID_PAYLOAD ends the loop. *)
AfterInvalidReportedBreaks == "finally"

(* INVALID_PAYLOAD, then continue. *)
AfterInvalidReported == "recv"

SendInvalid ==
    /\ pc = "send_invalid"
    /\ \E o \in SendOutcomes :
         /\ Send(ValidationErrorEvent("INVALID_PAYLOAD"), o)
         /\ IF o = "ok"
            THEN pc' = AfterInvalidReported /\ UNCHANGED <<close_code, gate>>
            ELSE Propagate(o)
    /\ UNCHANGED <<variant, endpoint, prior_ids, prev_cause, request_id, req,
                   errors, full_text, token, reply_text, closes, llm_calls,
                   nframes, ntokens, cause, active, produced, peer>>

(* BAD_REQUEST (app2's receive_chat_request), then continue. *)
SendBadRequest ==
    /\ pc = "send_bad_request"
    /\ \E o \in SendOutcomes :
         /\ Send(ErrorEvent("BAD_REQUEST", 0), o)
         /\ IF o = "ok" THEN Continue ELSE Propagate(o)
    /\ UNCHANGED <<variant, endpoint, prior_ids, prev_cause, request_id, req,
                   errors, full_text, token, reply_text, closes, llm_calls,
                   nframes, ntokens, cause, active, produced, peer>>

----------------------------------------------------------------------------
(* /ws/chat: one model call per request, under wait_for(..., timeout=60) *)

InvokeReturns ==
    /\ pc = "invoke"
    /\ active' = active - 1
    /\ \E r \in Results : reply_text' = to_text(r)
    /\ pc' = "send_response"
    /\ UNCHANGED <<variant, endpoint, prior_ids, prev_cause, close_code, gate,
                   request_id, req, errors, full_text, token, sends, closes,
                   llm_calls, clientGone, nframes, ntokens, cause, produced,
                   peer>>

(* Faulty variant (C11): the timer fires and the awaited call runs on. *)
CancelModelCallLeavesRunning == active' = active

(* asyncio.wait_for cancels the awaited call, and waits for the            *)
(* cancellation, before it raises TimeoutError.                            *)
CancelModelCall == active' = active - 1

(* Faulty variant (C22): llm.ainvoke is awaited without wait_for, no      *)
(* timer ever ends the wait.                                               *)
InvokeTimeoutAbsent == FALSE

(* The 60 s timer wins: asyncio.TimeoutError. *)
InvokeTimeout ==
    /\ pc = "invoke"
    /\ CancelModelCall
    /\ pc' = "send_llm_timeout"
    /\ cause' = "timeout"
    /\ UNCHANGED <<variant, endpoint, prior_ids, prev_cause, close_code, gate,
                   request_id, req, errors, full_text, token, reply_text,
                   sends, closes, llm_calls, clientGone, nframes, ntokens,
                   produced, peer>>

(* llm.ainvoke raises. *)
InvokeRaises ==
    /\ pc = "invoke"
    /\ active' = active - 1
    /\ pc' = "send_llm_error"
    /\ cause' = "llm_error"
    /\ UNCHANGED <<variant, endpoint, prior_ids, prev_cause, close_code, gate,
                   request_id, req, errors, full_text, token, reply_text,
                   sends, closes, llm_calls, clientGone, nframes, ntokens,
                   produced, peer>>

(* The response send is inside the inner try, which has no clause for      *)
(* WebSocketDisconnect: `except Exception` takes any failure of it.        *)
SendResponse ==
    /\ pc = "send_response"
    /\ \E o \in SendOutcomes :
         /\ Send(ResponseEvent(request_id, reply_text), o)
         /\ IF o = "ok"
            THEN Continue /\ cause' = "answered"
            ELSE /\ pc' = "send_llm_error"
                 /\ cause' = "send_failed"
                 /\ UNCHANGED <<close_code, gate>>
    /\ UNCHANGED <<variant, endpoint, prior_ids, prev_cause, request_id, req,
                   errors, full_text, token, reply_text, closes, llm_calls,
                   nframes, ntokens, active, produced, peer>>

SendLlmTimeout ==
    /\ pc = "send_llm_timeout"
    /\ \E o \in SendOutcomes :
         /\ Send(ErrorEvent("LLM_TIMEOUT", request_id), o)
         /\ IF o = "ok" THEN Break(WS_1013_TRY_AGAIN_LATER) ELSE Propagate(o)
    /\ UNCHANGED <<variant, endpoint, prior_ids, prev_cause, request_id, req,
                   errors, full_text, token, reply_text, closes, llm_calls,
                   nframes, ntokens, cause, active, produced, peer>>

SendLlmError ==
    /\ pc = "send_llm_error"
    /\ \E o \in SendOutcomes :
         /\ Send(ErrorEvent("LLM_ERROR", request_id), o)
         /\ IF o = "ok" THEN Break(WS_1011_INTERNAL_ERROR) ELSE Propagate(o)
    /\ UNCHANGED <<variant, endpoint, prior_ids, prev_cause, request_id, req,
                   errors, full_text, token, reply_text, closes, llm_calls,
                   nframes, ntokens, cause, active, produced, peer>>

----------------------------------------------------------------------------
(* /ws/chat2: start, then stream_tokens() under wait_for(..., timeout=120) *)

(* The start send is inside `async with lock` but outside the inner try. *)
SendStart ==
    /\ pc = "send_start"
    /\ \E o \in SendOutcomes :
         /\ Send(StartEvent(request_id), o)
         /\ IF o = "ok"
            THEN /\ pc' = "stream"
                 /\ full_text' = ""
                 /\ llm_calls' = Append(llm_calls, req)
                 /\ active' = active + 1
                 /\ UNCHANGED <<close_code, gate>>
            ELSE Propagate(o) /\ UNCHANGED <<full_text, llm_calls, active>>
    /\ UNCHANGED <<variant, endpoint, prior_ids, prev_cause, request_id, req,
                   errors, token, reply_text, closes, nframes, ntokens, cause,
                   produced, peer>>

(* Faulty variant (C2): full_text = token *)
AccumulateOverwrites(full, tok) == tok

(* full_text += token *)
Accumulate(full, tok) == full \o tok

(* Faulty variant (C16): no token is skipped. *)
SkippedNever(tok) == FALSE

(* if not token: continue *)
Skipped(tok) == tok = ""

(* The model produces a chunk: normalize, skip if empty, else accumulate   *)
(* and go to send it.                                                      *)
StreamYields ==
    /\ pc = "stream"
    /\ ntokens < MaxTokens
    /\ ntokens' = ntokens + 1
    /\ \E c \in Chunks :
         /\ produced' = Append(produced, to_text(c))
         /\ IF Skipped(to_text(c))
            THEN UNCHANGED <<pc, full_text, token>>
            ELSE /\ token' = to_text(c)
                 /\ full_text' = Accumulate(full_text, to_text(c))
                 /\ pc' = "send_chunk"
    /\ UNCHANGED <<variant, endpoint, prior_ids, prev_cause, close_code, gate,
                   request_id, req, errors, reply_text, sends, closes,
                   llm_calls, clientGone, nframes, cause, active, peer>>

(* Faulty variant (C15): no `except WebSocketDisconnect: raise` clause,    *)
(* the disconnect is handled like any other streaming error.               *)
ChunkDisconnectReported ==
    /\ pc' = "send_stream_error"
    /\ cause' = "send_failed"
    /\ UNCHANGED <<close_code, gate>>

(* except WebSocketDisconnect: raise *)
ChunkDisconnect ==
    /\ Propagate("disconnect")
    /\ cause' = "disconnect"

(* The chunk send: WebSocketDisconnect is re-raised to the supervisor, any  *)
(* other failure is a streaming error.  Either exception ends              *)
(* stream_tokens() and drops the model's stream.                           *)
SendChunk ==
    /\ pc = "send_chunk"
    /\ \E o \in SendOutcomes :
         /\ Send(ChunkEvent(request_id, token), o)
         /\ CASE o = "ok" ->
                   /\ pc' = "stream"
                   /\ UNCHANGED <<close_code, gate, cause, active>>
              [] o = "disconnect" ->
                   /\ ChunkDisconnect
                   /\ active' = active - 1
              [] o = "fail" ->
                   /\ pc' = "send_stream_error"
                   /\ cause' = "send_failed"
                   /\ active' = active - 1
                   /\ UNCHANGED <<close_code, gate>>
    /\ UNCHANGED <<variant, endpoint, prior_ids, prev_cause, request_id, req,
                   errors, full_text, token, reply_text, closes, llm_calls,
                   nframes, ntokens, produced, peer>>

(* The model's stream is exhausted: stream_tokens() returns. *)
StreamExhausted ==
    /\ pc = "stream"
    /\ active' = active - 1
    /\ pc' = "send_end"
    /\ UNCHANGED <<variant, endpoint, prior_ids, prev_cause, close_code, gate,
                   request_id, req, errors, full_text, token, reply_text,
                   sends, closes, llm_calls, clientGone, nframes, ntokens,
                   cause, produced, peer>>

(* llm.astream raises. *)
StreamRaises ==
    /\ pc = "stream"
    /\ active' = active - 1
    /\ pc' = "send_stream_error"
    /\ cause' = "llm_error"
    /\ UNCHANGED <<variant, endpoint, prior_ids, prev_cause, close_code, gate,
                   request_id, req, errors, full_text, token, reply_text,
                   sends, closes, llm_calls, clientGone, nframes, ntokens,
                   produced, peer>>

(* The 120 s timer wins while stream_tokens() waits for a chunk or for a   *)
(* chunk send: the task is cancelled where it is, the pending send is not  *)
(* made.                                                                   *)
StreamTimeout ==
    /\ pc \in {"stream", "send_chunk"}
    /\ CancelModelCall
    /\ pc' = "send_stream_timeout"
    /\ cause' = "timeout"
    /\ UNCHANGED <<variant, endpoint, prior_ids, prev_cause, close_code, gate,
                   request_id, req, errors, full_text, token, reply_text,
                   sends, closes, llm_calls, clientGone, nframes, ntokens,
                   produced, peer>>

SendEnd ==
    /\ pc = "send_end"
    /\ \E o \in SendOutcomes :
         /\ Send(EndEvent(request_id, full_text), o)
         /\ CASE o = "ok" -> Continue /\ cause' = "answered"
              [] o = "disconnect" -> Propagate(o) /\ cause' = "disconnect"
              [] o = "fail" -> /\ pc' = "send_stream_error"
                               /\ cause' = "send_failed"
                               /\ UNCHANGED <<close_code, gate>>
    /\ UNCHANGED <<variant, endpoint, prior_ids, prev_cause, request_id, req,
                   errors, full_text, token, reply_text, closes, llm_calls,
                   nframes, ntokens, active, produced, peer>>

(* Faulty variant (C1): no break after STREAM_TIMEOUT, the handler goes on *)
(* to send end.                                                            *)
AfterTimeoutReportedSendsEnd ==
    pc' = "send_end" /\ UNCHANGED <<close_code, gate>>

(* Faulty variant (C14): the timed-out stream is not cancelled and goes   *)
(* on producing tokens after STREAM_TIMEOUT has been sent.                 *)
AfterTimeoutReportedStreamsOn ==
    pc' = "stream" /\ UNCHANGED <<close_code, gate>>

(* Where the handler goes once STREAM_TIMEOUT has been sent. *)
AfterTimeoutReported == Break(WS_1013_TRY_AGAIN_LATER)

SendStreamTimeout ==
    /\ pc = "send_stream_timeout"
    /\ \E o \in SendOutcomes :
         /\ Send(ErrorEvent("STREAM_TIMEOUT", request_id), o)
         /\ IF o = "ok" THEN AfterTimeoutReported ELSE Propagate(o)
    /\ UNCHANGED <<variant, endpoint, prior_ids, prev_cause, request_id, req,
                   errors, full_text, token, reply_text, closes, llm_calls,
                   nframes, ntokens, cause, active, produced, peer>>

(* STREAM_ERROR is sent inside try/except Exception: pass. *)
SendStreamError ==
    /\ pc = "send_stream_error"
    /\ \E o \in SendOutcomes :
         /\ Send(ErrorEvent("STREAM_ERROR", request_id), o)
         /\ Break(WS_1011_INTERNAL_ERROR)
    /\ UNCHANGED <<variant, endpoint, prior_ids, prev_cause, request_id, req,
                   errors, full_text, token, reply_text, closes, llm_calls,
                   nframes, ntokens, cause, active, produced, peer>>

----------------------------------------------------------------------------
(* finally: await safe_close(websocket, code=close_code); app2 always      *)
(* passes WS_1000_NORMAL_CLOSURE.  A failure of close() is swallowed.      *)

safe_close(code) ==
    \E d \in (IF clientGone THEN {FALSE} ELSE {TRUE, FALSE}) :
        closes' = Append(closes, [code |-> code, delivered |-> d])

SafeClose ==
    /\ pc = "finally"
    /\ safe_close(IF variant = "app3" THEN close_code ELSE WS_1000_NORMAL_CLOSURE)
    /\ pc' = "done"
    /\ UNCHANGED <<variant, endpoint, prior_ids, prev_cause, close_code, gate,
                   request_id, req, errors, full_text, token, reply_text,
                   sends, llm_calls, clientGone, nframes, ntokens, cause,
                   active, produced, peer>>

Next ==
    \/ ReceiveDisconnect
    \/ ReceiveFrame
    \/ SendTooBig
    \/ SendInvalid
    \/ SendBadRequest
    \/ InvokeReturns
    \/ InvokeTimeout
    \/ InvokeRaises
    \/ SendResponse
    \/ SendLlmTimeout
    \/ SendLlmError
    \/ SendStart
    \/ StreamYields
    \/ SendChunk
    \/ StreamExhausted
    \/ StreamRaises
    \/ StreamTimeout
    \/ SendEnd
    \/ SendStreamTimeout
    \/ SendStreamError
    \/ SafeClose

Spec == Init /\ [][Next]_vars

----------------------------------------------------------------------------
(* Progress, for a connection served by app3.py.  The event loop runs     *)
(* every handler step that is not waiting for the client or the model: a  *)
(* send_json or close either completes or raises, and the timer of         *)
(* wait_for fires if the awaited call is still pending when it is due.     *)
(* Nothing is assumed of the client (it may never send another frame) or   *)
(* of the model (it may never return).                                     *)

InitApp3 == Init /\ variant = "app3"

NextApp3 ==
    \/ ReceiveDisconnect
    \/ ReceiveFrame
    \/ SendTooBig
    \/ SendInvalid
    \/ InvokeReturns
    \/ InvokeTimeout
    \/ InvokeRaises
    \/ SendResponse
    \/ SendLlmTimeout
    \/ SendLlmError
    \/ SendStart
    \/ StreamYields
    \/ SendChunk
    \/ StreamExhausted
    \/ StreamRaises
    \/ StreamTimeout
    \/ SendEnd
    \/ SendStreamTimeout
    \/ SendStreamError
    \/ SafeClose

SendStep ==
    \/ SendTooBig
    \/ SendInvalid
    \/ SendResponse
    \/ SendLlmTimeout
    \/ SendLlmError
    \/ SendStart
    \/ SendChunk
    \/ SendEnd
    \/ SendStreamTimeout
    \/ SendStreamError
    \/ SafeClose

Progress ==
    /\ WF_vars(SendStep)
    /\ WF_vars(InvokeTimeout)
    /\ WF_vars(StreamTimeout)

SpecFair == InitApp3 /\ [][NextApp3]_vars /\ Progress

----------------------------------------------------------------------------
(* Two connections.  Each call of the endpoint function creates its own    *)
(* asyncio.Lock, so the other connection's handler waits for nothing but   *)
(* its own lock.  The other connection is reduced to the part of its       *)
(* handler that runs under its lock.                                       *)

(* The peer accepts a frame: it enters `async with lock` on its own lock   *)
(* and starts its model call.                                              *)
PeerStarts ==
    /\ peer.lock = FALSE
    /\ peer' = [lock |-> TRUE, active |-> peer.active + 1]
    /\ UNCHANGED <<variant, endpoint, pc, close_code, gate, request_id, req,
                   errors, full_text, token, reply_text, sends, prior_ids,
                   prev_cause, closes, llm_calls, clientGone, nframes,
                   ntokens, cause, active, produced>>

(* The peer's request is resolved: its model call is over, its lock free. *)
PeerResolves ==
    /\ peer.lock = TRUE
    /\ peer' = [lock |-> FALSE, active |-> peer.active - 1]
    /\ UNCHANGED <<variant, endpoint, pc, close_code, gate, request_id, req,
                   errors, full_text, token, reply_text, sends, prior_ids,
                   prev_cause, closes, llm_calls, clientGone, nframes,
                   ntokens, cause, active, produced>>

NextPeers ==
    \/ Next
    \/ PeerStarts
    \/ PeerResolves

SpecPeers == Init /\ [][NextPeers]_vars

----------------------------------------------------------------------------
(* Properties *)

EmittedTypes == [i \in 1..Len(Emitted) |-> Emitted[i].ev.type]
Terminal == {"end", "error"}
AllSendsOk == \A i \in 1..Len(sends) : sends[i].result = "ok"
Attempted(c) == \E i \in 1..Len(sends) : sends[i].ev.code = c \/ sends[i].ev.status = c
AttemptedFor(c, rid) ==
    \E i \in 1..Len(sends) : sends[i].ev.code = c /\ sends[i].ev.request_id = rid

(* A validated request of app3's streaming endpoint. *)
Stream3Request == variant = "app3" /\ endpoint = "chat2" /\ req # NoRequest
(* The handler is done with the current frame. *)
Resolved == pc \in {"recv", "finally", "done"}

(* start, chunk*, then exactly one of end | error *)
CompleteStream(ts) ==
    /\ Len(ts) >= 2
    /\ ts[1] = "start"
    /\ ts[Len(ts)] \in Terminal
    /\ \A i \in 2..(Len(ts) - 1) : ts[i] = "chunk"

(* a prefix of start, chunk*, (end | error) *)
StreamPrefix(ts) ==
    \A i \in 1..Len(ts) :
        /\ (i = 1) => ts[i] = "start"
        /\ (i > 1) => ts[i] \in {"chunk"} \cup Terminal
        /\ (ts[i] \in Terminal) => i = Len(ts)

(* C1 as stated: every validated request of /ws/chat2 (app3.py) whose      *)
(* handling is over has emitted exactly start, chunk*, and one terminal    *)
(* event, whatever ended it (send failure and client disconnect included). *)
C1_Original ==
    (Stream3Request /\ Resolved /\ Len(Emitted) > 0) => CompleteStream(EmittedTypes)

(* C1 as amended: the events emitted for a validated request of /ws/chat2  *)
(* (app3.py) always form a prefix of start, chunk*, (end | error) -- at    *)
(* most one terminal event, nothing after it -- and once the handling is   *)
(* over with no send of the request having failed, they are exactly start, *)
(* chunk*, and one terminal event.                                         *)
C1_StreamShape ==
    Stream3Request =>
        /\ StreamPrefix(EmittedTypes)
        /\ (Resolved /\ AllSendsOk) => CompleteStream(EmittedTypes)

(* C1 witness: a stream that timed out mid-way: start, chunk, error. *)
C1_Witness ==
    /\ Stream3Request /\ pc = "finally" /\ AllSendsOk
    /\ EmittedTypes = <<"start", "chunk", "error">>
    /\ cause = "timeout"

RECURSIVE ChunkText(_)
(* The concatenation, in order, of the values of the chunk events of es. *)
ChunkText(es) ==
    IF es = <<>> THEN ""
    ELSE ChunkText(SubSeq(es, 1, Len(es) - 1)) \o
         (IF es[Len(es)].ev.type = "chunk" THEN es[Len(es)].ev.value ELSE "")

(* C2: the `full` of an emitted end event is the concatenation, in         *)
(* emission order, of the values of the chunk events emitted before it for *)
(* that request (app3.py and app2.py).                                     *)
C2_FullIsConcatenation ==
    \A i \in 1..Len(Emitted) :
        Emitted[i].ev.type = "end" =>
            /\ Emitted[i].ev.full = ChunkText(SubSeq(Emitted, 1, i - 1))
            /\ \A j \in 1..(i - 1) :
                   Emitted[j].ev.request_id = Emitted[i].ev.request_id

(* C2 witness: chunks "He", "llo", then end with full "Hello". *)
C2_Witness ==
    /\ Len(Emitted) = 4
    /\ Emitted[2].ev.value = "He" /\ Emitted[3].ev.value = "llo"
    /\ Emitted[4].ev.type = "end" /\ Emitted[4].ev.full = "Hello"

C4_NoCloseAfterDisconnect ==
    (variant = "app3" /\ cause = "disconnect") => closes = <<>>

(* C5 as stated: after a model timeout in app3.py the timeout error event  *)
(* of that request is sent, no further frame is read, and the close        *)
(* attempt carries 1013.                                                   *)
C5_TimeoutClosesWith1013 ==
    (variant = "app3" /\ cause = "timeout" /\ pc = "done") =>
        /\ AttemptedFor(IF endpoint = "chat" THEN "LLM_TIMEOUT" ELSE "STREAM_TIMEOUT",
                        request_id)
        /\ closes[1].code = WS_1013_TRY_AGAIN_LATER

(* C6 as stated: after a model or stream failure in app3.py the error      *)
(* event of that request is sent (best effort) and the close attempt       *)
(* carries 1011; so does the close attempt after any other unexpected      *)
(* exception in the loop.                                                  *)
C6_ModelErrorClosesWith1011 ==
    (variant = "app3" /\ pc = "done") =>
        /\ cause = "llm_error" =>
              /\ AttemptedFor(IF endpoint = "chat" THEN "LLM_ERROR" ELSE "STREAM_ERROR",
                              request_id)
              /\ closes[1].code = WS_1011_INTERNAL_ERROR
        /\ cause = "bad_frame" => closes[1].code = WS_1011_INTERNAL_ERROR

(* C7 as stated: a message of exactly 8000 characters validates; one of    *)
(* 8001 is answered with MESSAGE_TOO_BIG, not INVALID_PAYLOAD, never       *)
(* reaches the model, and the connection's close attempt carries 1009.     *)
C7_BoundaryAndClose1009 ==
    /\ Validate(StringFrame(MaxLength, FALSE)) = <<>>
    /\ is_message_too_big_error(Validate(StringFrame(MaxLength + 1, FALSE)))
    /\ \A i \in 1..Len(llm_calls) : llm_calls[i].len <= MaxLength
    /\ (variant = "app3" /\ cause = "too_big") =>
          /\ ~Attempted("INVALID_PAYLOAD")
          /\ pc = "done" =>
                /\ Attempted("MESSAGE_TOO_BIG")
                /\ closes[1].code = WS_1009_MESSAGE_TOO_BIG

(* C8 as stated: a whitespace-only message never reaches the model. *)
C8_BlankNeverReachesModel ==
    \A i \in 1..Len(llm_calls) : ~llm_calls[i].blank

(* C9: the step that reports a generic validation failure invokes no       *)
(* model; when the INVALID_PAYLOAD event is delivered it is the one event  *)
(* of the frame, no close decision is set, the gate is free and the        *)
(* handler is back at receive_json.                                        *)
C9_InvalidKeepsOpen ==
    [][ pc = "send_invalid" =>
          /\ llm_calls' = llm_calls
          /\ Len(sends') = 1
          /\ sends'[1].ev.type = "error"
          /\ "INVALID_PAYLOAD" \in {sends'[1].ev.code, sends'[1].ev.status}
          /\ sends'[1].result = "ok" =>
                /\ pc' = "recv"
                /\ close_code' = close_code
                /\ ~lock' ]_vars

(* C9 witness: the frame after a rejected one was answered. *)
C9_Witness ==
    /\ prev_cause = "invalid" /\ cause = "answered" /\ pc = "recv"
    /\ close_code = WS_1000_NORMAL_CLOSURE /\ lock = FALSE

(* C10 as stated: app3.py never ends a connection over a bad inbound frame *)
(* without having sent an error event for that frame.                      *)
C10_BadFrameGetsErrorEvent ==
    (variant = "app3" /\ pc = "done" /\ cause \in {"bad_frame", "invalid", "too_big"})
        => \E i \in 1..Len(sends) : sends[i].ev.type = "error"

----------------------------------------------------------------------------
(* The gate *)

(* C11: a connection has at most one model call or token stream in flight, *)
(* and only while its handler holds the connection's lock; the handler is  *)
(* never back at receive_json with a call in flight or the lock held, so   *)
(* no frame is received and no call started while a request is unresolved. *)
(* The same holds for a second connection, whose lock is its own: the two  *)
(* connections' requests are free to overlap.                              *)
C11_OneActiveRequest ==
    /\ active \in {0, 1}
    /\ (active = 1) => lock
    /\ (pc = "recv") => (active = 0 /\ ~lock)
    /\ lock => pc \notin {"recv", "finally", "done"}
    /\ peer.active \in {0, 1}
    /\ (peer.active = 1) => peer.lock

(* C11 witness: the second request of this connection is in flight while   *)
(* the other connection's request is in flight too.                        *)
C11_Witness ==
    /\ nframes = 2 /\ Len(llm_calls) = 2 /\ active = 1 /\ lock
    /\ peer.active = 1 /\ peer.lock

(* C12: the connection's lock is released once for every acquire: the      *)
(* releases trail the acquires by one exactly while the lock is held, and  *)
(* it is not held -- every acquire has had its release -- whenever the     *)
(* handler is at receive_json, at the close attempt, or over, whichever    *)
(* way the request ended.                                                  *)
C12_GateReleasedOncePerAcquire ==
    /\ acquires = releases + (IF lock THEN 1 ELSE 0)
    /\ (pc \in {"recv", "finally", "done"}) => (~lock /\ releases = acquires)

(* C12 witness: one request answered, the next one ended by a failed event *)
(* send; two acquires, two releases, the lock free at the close attempt.   *)
C12_Witness ==
    /\ pc = "finally" /\ prev_cause = "answered" /\ cause = "send_failed"
    /\ acquires = 2 /\ releases = 2 /\ ~lock

----------------------------------------------------------------------------
(* Requests and their events *)

(* The events of type t emitted for the current frame. *)
EmittedOfType(t) == { i \in 1..Len(Emitted) : Emitted[i].ev.type = t }

(* C13 as stated: on /ws/chat (app3.py), once the reply of a valid frame   *)
(* has been sent, exactly one response event exists for the frame, its    *)
(* request_id is none of the request_ids of the events emitted earlier on  *)
(* the connection, the model has been invoked once per accepted frame (no  *)
(* cached reply), and the connection is open, back at receive_json.        *)
C13_OneFreshResponse ==
    (variant = "app3" /\ endpoint = "chat" /\ cause = "answered"
                      /\ pc = "recv") =>
        /\ Cardinality(EmittedOfType("response")) = 1
        /\ \A i \in EmittedOfType("response") :
               /\ Emitted[i].ev.request_id = request_id
               /\ Emitted[i].ev.request_id \notin prior_ids
        /\ Len(llm_calls) = acquires
        /\ closes = <<>>

(* The send attempts of the current frame that report a timeout. *)
TimeoutReports ==
    { i \in 1..Len(sends) : sends[i].ev.code \in {"LLM_TIMEOUT", "STREAM_TIMEOUT"} }

(* C14: in app3.py, once the timeout of a request has fired the model call *)
(* is no longer in flight and the handler only reports the timeout and     *)
(* closes: no response, chunk or end event is sent or attempted after the  *)
(* LLM_TIMEOUT / STREAM_TIMEOUT event, and no later request exists that    *)
(* could carry the same request_id.                                        *)
C14_NothingAfterTimeout ==
    (variant = "app3" /\ cause = "timeout") =>
        /\ active = 0
        /\ pc \in {"send_llm_timeout", "send_stream_timeout", "finally", "done"}
        /\ \A i \in TimeoutReports :
               /\ sends[i].ev.request_id = request_id
               /\ \A j \in (i + 1)..Len(sends) :
                      sends[j].ev.type \notin {"response", "chunk", "end"}

(* C14 witness: a stream that had emitted a chunk timed out, the           *)
(* STREAM_TIMEOUT event was delivered and the connection closed.           *)
C14_Witness ==
    /\ variant = "app3" /\ endpoint = "chat2" /\ cause = "timeout" /\ pc = "done"
    /\ Len(Emitted) = 3
    /\ Emitted[2].ev.type = "chunk"
    /\ Emitted[3].ev.code = "STREAM_TIMEOUT"

(* C15: once a chunk send has raised WebSocketDisconnect, that attempt is  *)
(* the last send attempt of the connection, the token it carried is the    *)
(* last one taken from the model's stream, the stream is dropped, the lock *)
(* has had its one release, the close decision is untouched, and the       *)
(* handler is at (or past) the supervisor's close attempt: no frame is     *)
(* received any more.                                                      *)
C15_ChunkDisconnectPropagates ==
    \A i \in 1..Len(sends) :
        (sends[i].ev.type = "chunk" /\ sends[i].result = "disconnect") =>
            /\ i = Len(sends)
            /\ pc \in {"finally", "done"}
            /\ produced # <<>> /\ produced[Len(produced)] = sends[i].ev.value
            /\ active = 0
            /\ ~lock /\ releases = acquires
            /\ close_code = WS_1000_NORMAL_CLOSURE

(* C15 witness: one chunk delivered, the next chunk send met the           *)
(* disconnect, the connection is over.                                     *)
C15_Witness ==
    /\ variant = "app3" /\ pc = "done" /\ Len(sends) = 3
    /\ sends[2].ev.type = "chunk" /\ sends[2].result = "ok"
    /\ sends[3].ev.type = "chunk" /\ sends[3].result = "disconnect"

(* The tokens of ts that are not the empty string, in order. *)
NonEmptyTokens(ts) == SelectSeq(ts, LAMBDA t : t # "")

(* The `value`s of the chunk events among the send entries es, in order. *)
ChunkValues(es) ==
    LET cs == SelectSeq(es, LAMBDA e : e.ev.type = "chunk")
    IN  [i \in 1..Len(cs) |-> cs[i].ev.value]

IsPrefix(a, b) == Len(a) <= Len(b) /\ SubSeq(b, 1, Len(a)) = a

(* C16 as stated: for every streaming request whose handling is over, the  *)
(* chunk values emitted are exactly the non-empty normalized tokens the    *)
(* model produced for it, in order.                                        *)
C16_Original ==
    (endpoint = "chat2" /\ req # NoRequest /\ Resolved) =>
        ChunkValues(Emitted) = NonEmptyTokens(produced)

(* C16 as amended: the chunk values emitted for a streaming request are,   *)
(* one chunk per token and in order, a prefix of the non-empty normalized  *)
(* tokens the model produced for it; only the last such token can be       *)
(* missing (its send failed, or the timeout cancelled it), and none is     *)
(* missing once the end event is sent.  No chunk carries an empty value.   *)
C16_ChunksAreTokens ==
    LET toks  == NonEmptyTokens(produced)
        tried == ChunkValues(sends)
        sent  == ChunkValues(Emitted)
    IN  /\ IsPrefix(sent, tried)
        /\ IsPrefix(tried, toks)
        /\ Len(toks) - Len(sent) <= 1
        /\ (\E i \in 1..Len(sends) : sends[i].ev.type = "end") => sent = toks
        /\ \A i \in 1..Len(tried) : tried[i] # ""

(* C16 witness: the model produced an empty token, then "He"; the one     *)
(* chunk emitted is "He", and end was sent.                                *)
C16_Witness ==
    /\ produced = <<"", "He">>
    /\ ChunkValues(Emitted) = <<"He">>
    /\ cause = "answered"

----------------------------------------------------------------------------
(* Error reporting *)

ErrorCodes ==
    {"INVALID_PAYLOAD", "MESSAGE_TOO_BIG", "BAD_REQUEST", "LLM_TIMEOUT",
     "LLM_ERROR", "STREAM_TIMEOUT", "STREAM_ERROR"}

(* C17 as stated: every error event app3.py emits, on either endpoint, has *)
(* a `code` field holding one of the seven error codes, and a `detail`.    *)
C17_ErrorsCarryCode ==
    variant = "app3" =>
        \A i \in 1..Len(Emitted) :
            Emitted[i].ev.type = "error" =>
                /\ Emitted[i].ev.code \in ErrorCodes
                /\ Emitted[i].ev.detail

----------------------------------------------------------------------------
(* Text normalization *)

(* A plain string as a model result: what to_text is given when it is      *)
(* applied to its own output.                                              *)
AsResult(t) == LlmResult("str", t)

(* to_text(to_text(r)) = to_text(r), and to_text(r) is a string: the empty *)
(* one for None and for an absent or empty `content`.                      *)
Normalizes(r) ==
    LET t == to_text(r)
    IN  /\ t # Absent
        /\ to_text(AsResult(t)) = t
        /\ (r.kind \in {"none", "content_none"}) => t = ""
        /\ (r.kind = "content" /\ r.text = "") => t = ""

(* C18: to_text is idempotent and string-valued on every result shape the  *)
(* model can return (None, a plain string, an object whose `content` is a  *)
(* string, empty, or None), and so is every text the handlers got from it: *)
(* the reply about to be sent, the token about to be sent and the tokens   *)
(* recorded for the request.                                               *)
C18_ToTextIdempotent ==
    /\ \A r \in Results \cup Chunks \cup {AsResult("")} : Normalizes(r)
    /\ \A t \in {reply_text, token} \cup {produced[i] : i \in 1..Len(produced)} :
           t # Absent /\ to_text(AsResult(t)) = t

(* C18 witness: the second reply of a connection, None or with an absent  *)
(* or empty `content`, normalized to the empty string and about to be      *)
(* sent.                                                                   *)
C18_Witness ==
    /\ pc = "send_response" /\ reply_text = "" /\ nframes = 2
    /\ prev_cause = "answered"

(* The send of the error event named c was attempted for the current frame *)
(* and did not complete.                                                   *)
FailedReport(c) ==
    \E i \in 1..Len(sends) :
        /\ sends[i].ev.type = "error"
        /\ c \in {sends[i].ev.code, sends[i].ev.status}
        /\ sends[i].result # "ok"

(* C19 as stated: in app3.py a failed send of an error event leaves the    *)
(* close decision that of the failure being reported: 1013 for a timeout,  *)
(* 1011 for a model error, 1009 for an oversized message.                  *)
C19_ReportFailureSuppressed ==
    (variant = "app3" /\ pc \in {"finally", "done"}) =>
        /\ (FailedReport("LLM_TIMEOUT") \/ FailedReport("STREAM_TIMEOUT"))
               => close_code = WS_1013_TRY_AGAIN_LATER
        /\ (FailedReport("LLM_ERROR") \/ FailedReport("STREAM_ERROR"))
               => close_code = WS_1011_INTERNAL_ERROR
        /\ FailedReport("MESSAGE_TOO_BIG")
               => close_code = WS_1009_MESSAGE_TOO_BIG

----------------------------------------------------------------------------
(* The app2.py variant *)

ModelFailureReports ==
    {"send_llm_timeout", "send_llm_error", "send_stream_timeout",
     "send_stream_error"}

(* C20: in app2.py the step that delivers an LLM_TIMEOUT, LLM_ERROR,       *)
(* STREAM_TIMEOUT or STREAM_ERROR event releases the lock and puts the     *)
(* handler back at receive_json with no close attempted; and every close   *)
(* attempt app2.py ever makes carries 1000.                                *)
C20_App2KeepsServing ==
    /\ [](variant = "app2" =>
             \A i \in 1..Len(closes) : closes[i].code = WS_1000_NORMAL_CLOSURE)
    /\ [][ (variant = "app2" /\ pc \in ModelFailureReports
              /\ Len(sends') = Len(sends) + 1
              /\ sends'[Len(sends')].result = "ok") =>
                 /\ pc' = "recv"
                 /\ ~lock' /\ releases' = releases + 1
                 /\ closes' = closes ]_vars

(* C20 witness: app2.py reported a model timeout, then received the next   *)
(* frame and answered it; the connection later closed with 1000.           *)
C20_Witness ==
    /\ variant = "app2" /\ prev_cause = "timeout" /\ nframes = 2
    /\ \E i \in 1..Len(Emitted) : Emitted[i].ev.type \in {"response", "end"}
    /\ pc = "done" /\ Len(closes) = 1
    /\ closes[1].code = WS_1000_NORMAL_CLOSURE

----------------------------------------------------------------------------
(* Close codes *)

CloseCodes ==
    {WS_1000_NORMAL_CLOSURE, WS_1009_MESSAGE_TOO_BIG, WS_1011_INTERNAL_ERROR,
     WS_1013_TRY_AGAIN_LATER}

(* The receive loop is over. *)
LoopOver == pc \in {"finally", "done"}

(* The loop was ended by a WebSocketDisconnect that reached the outer      *)
(* `except WebSocketDisconnect`: raised by receive_json, re-raised from a  *)
(* chunk or end send, or raised by a send that no inner handler takes.     *)
(* (A disconnect raised by the STREAM_ERROR send is swallowed.)            *)
EndedByDisconnect ==
    /\ LoopOver
    /\ \/ cause = "disconnect"
       \/ /\ sends # <<>>
          /\ sends[Len(sends)].result = "disconnect"
          /\ sends[Len(sends)].ev.code # "STREAM_ERROR"

(* C21: in app3.py the loop is only ever left by a break or an exception;  *)
(* the close decision, and the code of the close attempt, is always one of *)
(* 1000, 1009, 1011, 1013; it is 1000 only when a WebSocketDisconnect      *)
(* ended the loop, and one of 1009, 1013, 1011 when the server ended it    *)
(* (break after an oversized message, a timeout or a model/stream error,   *)
(* or any other exception); the close attempt carries the decision.        *)
C21_CloseCodeByExit ==
    variant = "app3" =>
        /\ close_code \in CloseCodes
        /\ \A i \in 1..Len(closes) : closes[i].code = close_code
        /\ ~LoopOver => close_code = WS_1000_NORMAL_CLOSURE
        /\ (LoopOver /\ close_code = WS_1000_NORMAL_CLOSURE) => EndedByDisconnect
        /\ (LoopOver /\ ~EndedByDisconnect) =>
               close_code \in {WS_1009_MESSAGE_TOO_BIG, WS_1013_TRY_AGAIN_LATER,
                               WS_1011_INTERNAL_ERROR}
        /\ (LoopOver /\ cause = "bad_frame") =>
               close_code = WS_1011_INTERNAL_ERROR

(* C21 witness: a timeout whose error send met the client's disconnect:   *)
(* the disconnect, not the break, ended the loop, and the close attempt    *)
(* carries 1000.                                                           *)
C21_Witness ==
    /\ variant = "app3" /\ pc = "done" /\ cause = "timeout"
    /\ sends[Len(sends)].result = "disconnect"
    /\ closes[1].code = WS_1000_NORMAL_CLOSURE

----------------------------------------------------------------------------
(* Termination *)

(* A terminal event of the current request has been emitted. *)
TerminalEmitted ==
    \E i \in 1..Len(Emitted) : Emitted[i].ev.type \in {"response", "end", "error"}

(* C22: with sends that complete or fail and timers that fire when due,    *)
(* every request that entered the gate in app3.py leaves it: the lock is   *)
(* released, and by then a terminal event (response, end or error) of the  *)
(* request has been emitted or the receive loop is over -- whatever the    *)
(* model does, including never returning.                                  *)
C22_EveryRequestResolved ==
    (variant = "app3" /\ lock) ~> (~lock /\ (TerminalEmitted \/ LoopOver))

(* C22 witness: the model never answered; the timer ended the wait, the    *)
(* error event was emitted and the connection closed.                      *)
C22_Witness ==
    /\ variant = "app3" /\ endpoint = "chat" /\ cause = "timeout"
    /\ ~lock /\ TerminalEmitted /\ pc = "done"

====
